---- MODULE Spec2Model ----
(***************************************************************************)
(* Boundary layer of the OpenDP library.                                   *)
(*                                                                         *)
(*  - rust/src/measurements/gaussian/ffi.rs : the Gaussian mechanism       *)
(*    constructor opendp_measurements__make_gaussian (specification Spec). *)
(*  - rust/opendp-ffi/src/data.rs : the type-erased data container         *)
(*    FfiObject and its accessors (specification DataSpec).                *)
(*                                                                         *)
(* A type descriptor (ffi::util::Type) is modelled as the sequence of the  *)
(* names met when descending through its single generic argument:          *)
(* VectorDomain<AtomDomain<i32>> is <<"VectorDomain","AtomDomain","i32">>. *)
(* A C string is the sequence of its lexical tokens.                       *)
(***************************************************************************)
EXTENDS Integers, Sequences, FiniteSets, TLC

VARIABLES
    anyDomain,    \* the caller's AnyDomain object (NoDomain: not created yet)
    anyMetric,    \* the caller's AnyMetric object (NoMetric: not created yet)
    call,         \* arguments of the last opendp_measurements__make_gaussian call
    result,       \* the FfiResult that call returned
    invoked,      \* last opendp_core__measurement_invoke on the returned handle
    heap,         \* data.rs: address -> FfiObject stored there (or FreeSlot)
    owned,        \* data.rs: FfiObject handles the caller holds and has not freed
    strBufs,      \* data.rs: number of C string buffers allocated, not released
    callerStrs,   \* data.rs: number of returned strings the caller still holds
    ret           \* data.rs: outcome of the last data.rs operation

vars == <<anyDomain, anyMetric, call, result, invoked,
          heap, owned, strBufs, callerStrs, ret>>
gaussVars == <<anyDomain, anyMetric, call, result, invoked>>
dataVars == <<heap, owned, strBufs, callerStrs, ret>>

----------------------------------------------------------------------------
(* Bounds of the model *)

\* scale values range over 0..MaxScale
MaxScale == 1
\* number of addresses the allocator can hand out for FfiObjects
MaxHandles == 1
\* cap on the number of string buffers allocated and not released
MaxStrings == 2
\* numeric arguments of the data.rs constructors range over 1..MaxValue
MaxValue == 2

----------------------------------------------------------------------------
(* Type classes of the dispatch macro: @floats, @integers, @numbers.        *)
(* @integers is represented by one signed and one unsigned type.            *)

Floats == {"f32", "f64"}
IntegerTypes == {"i32", "u32"}
Numbers == IntegerTypes \cup Floats
OtherAtoms == {"bool", "String"}
Atoms == Numbers \cup OtherAtoms

DomainKinds == {<<"AtomDomain">>, <<"VectorDomain", "AtomDomain">>,
                <<"OptionDomain", "AtomDomain">>}
MeasureFamilies == {"ZeroConcentratedDivergence", "MaxDivergence"}

\* Type::get_atom: the innermost type of a descriptor; <<>> when there is none
get_atom(type_) == IF Len(type_) = 0 THEN <<>> ELSE <<type_[Len(type_)]>>

\* Type::try_from(*const c_char): parse  name | name "<" type ">" ;
\* <<>> stands for the parse error.
RECURSIVE ParseType(_)
ParseType(toks) ==
    IF Len(toks) = 0 \/ toks[1] \in {"<", ">"} THEN <<>>
    ELSE IF Len(toks) = 1 THEN <<toks[1]>>
    ELSE IF Len(toks) >= 4 /\ toks[2] = "<" /\ toks[Len(toks)] = ">"
         THEN LET inner == ParseType(SubSeq(toks, 3, Len(toks) - 1))
              IN  IF inner = <<>> THEN <<>> ELSE <<toks[1]>> \o inner
         ELSE <<>>

TypeTryFrom(cstr) == IF cstr.null THEN <<>> ELSE ParseType(cstr.text)

----------------------------------------------------------------------------
(* Objects *)

NoDomain == [type_ |-> <<>>]
NoMetric == [type_ |-> <<>>, distance_type |-> <<>>]
NoMeasurement == [input_domain |-> NoDomain, input_metric |-> NoMetric,
                  output_measure |-> <<>>, scale |-> 0]

\* AnyDomain::new(D): the descriptor is the type of the wrapped domain
AnyDomainNew(kind, T) == [type_ |-> kind \o <<T>>]

\* AnyMetric::new(M): AbsoluteDistance<Q> and L2Distance<Q> measure in Q,
\* SymmetricDistance measures in u32
AnyMetricNew(kind, Q) ==
    IF kind = "SymmetricDistance"
    THEN [type_ |-> <<kind>>, distance_type |-> <<"u32">>]
    ELSE [type_ |-> <<kind, Q>>, distance_type |-> <<Q>>]

\* <D as BaseDiscreteGaussianDomain<Q>>::InputMetric
InputMetric(D, Q) ==
    IF D[1] = "AtomDomain" THEN <<"AbsoluteDistance", Q>> ELSE <<"L2Distance", Q>>

\* (D, D::InputMetric): MetricSpace -- the registered pairings
MetricSpaceRegistered(D, M) ==
    \/ D[1] = "AtomDomain" /\ M[1] = "AbsoluteDistance"
    \/ D[1] = "VectorDomain" /\ M[1] = "L2Distance"

\* raw payloads: a null pointer, or memory laid out as a value of type ty
NullScale == [ty |-> "NULL", val |-> 0]
ScaleVals == 0..MaxScale
ScalePayloads == {NullScale} \cup [ty : Numbers, val : ScaleVals]

\* *try_as_ref!(scale as *const X): the values the read can produce.  Reading
\* memory laid out as another type is undefined: any value may come out.
DerefScale(scale, X) ==
    IF scale.ty = "NULL" THEN {}
    ELSE IF scale.ty = X THEN {scale.val}
    ELSE ScaleVals

Ok(m, X) == [ok |-> TRUE, err |-> "", val |-> m, scaleAs |-> X]
Err(kind, X) == [ok |-> FALSE, err |-> kind, val |-> NoMeasurement, scaleAs |-> X]
NoResult == Err("none", "")

----------------------------------------------------------------------------
(* measurements/gaussian/ffi.rs *)

\* make_gaussian::<D, MO, QI>(input_domain, input_metric, scale).into_any():
\* the builder checks that the pairing is a registered metric space and then
\* builds the Measurement from the (cloned) domain and metric
make_gaussian(input_domain, input_metric, MO, scale, X) ==
    IF ~MetricSpaceRegistered(input_domain.type_, input_metric.type_)
    THEN Err("IncompatibleMetricSpace", X)
    ELSE Ok([input_domain |-> input_domain, input_metric |-> input_metric,
             output_measure |-> MO, scale |-> scale], X)

\* monomorphize2::<D, MO> of monomorphize_float; QI is MO::Distance
monomorphize2_float(D, MO, input_domain, input_metric, scale) ==
    IF input_domain.type_ # D
    THEN Err("TypeMismatch", MO[2])
    ELSE IF input_metric.type_ # InputMetric(D, MO[2])
    THEN Err("TypeMismatch", MO[2])
    ELSE make_gaussian(input_domain, input_metric, MO, scale, MO[2])

\* the type the float branch reads the scale payload as
FloatScaleType(T) == T

\* dispatch!(monomorphize2, [(D, [AtomDomain<T>, VectorDomain<AtomDomain<T>>]),
\*                           (MO, [ZeroConcentratedDivergence<T>])])
FloatInnerDispatchMatches(D, MO, T) ==
    /\ D \in {<<"AtomDomain", T>>, <<"VectorDomain", "AtomDomain", T>>}
    /\ MO = <<"ZeroConcentratedDivergence", T>>

monomorphize_float(T, input_domain, input_metric, scale, MO) ==
    LET D == input_domain.type_
        X == FloatScaleType(T)
    IN  IF DerefScale(scale, X) = {}
        THEN {Err("InvalidArgument", "")}
        ELSE IF ~FloatInnerDispatchMatches(D, MO, T)
        THEN {Err("UnsupportedCombination", X)}
        ELSE {monomorphize2_float(D, MO, input_domain, input_metric, s) :
                 s \in DerefScale(scale, X)}

\* monomorphize2::<D, MO, QI> of monomorphize_integer
monomorphize2_integer(D, MO, QI, input_domain, input_metric, scale) ==
    IF input_domain.type_ # D
    THEN Err("TypeMismatch", MO[2])
    ELSE IF input_metric.type_ # InputMetric(D, QI)
    THEN Err("TypeMismatch", MO[2])
    ELSE make_gaussian(input_domain, input_metric, MO, scale, MO[2])

\* the type the integer branch reads the scale payload as
IntegerScaleTypeAsT(T, QI, QO) == T
IntegerScaleType(T, QI, QO) == QO

\* dispatch!(monomorphize2, [(D, [AtomDomain<T>, VectorDomain<AtomDomain<T>>]),
\*                           (MO, [ZeroConcentratedDivergence<QO>]), (QI, [QI])])
IntegerInnerDispatchAnyMeasure(D, MO, T, QO) ==
    /\ D \in {<<"AtomDomain", T>>, <<"VectorDomain", "AtomDomain", T>>}
    /\ Len(MO) = 2 /\ MO[2] = QO
IntegerInnerDispatchMatches(D, MO, T, QO) ==
    /\ D \in {<<"AtomDomain", T>>, <<"VectorDomain", "AtomDomain", T>>}
    /\ MO = <<"ZeroConcentratedDivergence", QO>>

monomorphize_integer(T, QI, QO, input_domain, input_metric, scale, MO) ==
    LET D == input_domain.type_
        X == IntegerScaleType(T, QI, QO)
    IN  IF DerefScale(scale, X) = {}
        THEN {Err("InvalidArgument", "")}
        ELSE IF ~IntegerInnerDispatchMatches(D, MO, T, QO)
        THEN {Err("UnsupportedCombination", X)}
        ELSE {monomorphize2_integer(D, MO, QI, input_domain, input_metric, s) :
                 s \in DerefScale(scale, X)}

\* dispatch!(in_set, [(T, @floats)])
in_set_floats(T) == Len(T) = 1 /\ T[1] \in Floats

\* the float branch's two equality requirements
FloatTypesAgreeOutputOnly(T, QI, QO) == T = QO
FloatTypesAgree(T, QI, QO) ==
    IF T # QI THEN FALSE
    ELSE IF T # QO THEN FALSE
    ELSE TRUE

\* dispatch!(monomorphize_integer, [(T, @integers), (QI, @numbers), (QO, @floats)])
IntegerDispatchAnyOutput(T, QI, QO) ==
    /\ Len(T) = 1 /\ T[1] \in IntegerTypes
    /\ Len(QI) = 1 /\ QI[1] \in Numbers
    /\ Len(QO) = 1 /\ QO[1] \in Numbers
IntegerDispatchIntegerDistances(T, QI, QO) ==
    /\ Len(T) = 1 /\ T[1] \in IntegerTypes
    /\ Len(QI) = 1 /\ QI[1] \in IntegerTypes
    /\ Len(QO) = 1 /\ QO[1] \in Floats
IntegerDispatchMatches(T, QI, QO) ==
    /\ Len(T) = 1 /\ T[1] \in IntegerTypes
    /\ Len(QI) = 1 /\ QI[1] \in Numbers
    /\ Len(QO) = 1 /\ QO[1] \in Floats

\* The set of FfiResults the call can return.  A null handle is NoDomain /
\* NoMetric: a pointer to no object.
opendp_measurements__make_gaussian(input_domain, input_metric, scale, MOstr) ==
    IF input_domain = NoDomain \/ input_metric = NoMetric
    THEN {Err("InvalidArgument", "")}
    ELSE
    LET T  == get_atom(input_domain.type_)
        MO == TypeTryFrom(MOstr)
        QO == get_atom(MO)
    IN  IF T = <<>> \/ MO = <<>> \/ QO = <<>>
        THEN {Err("InvalidArgument", "")}
        ELSE IF in_set_floats(T)
        THEN LET QI == get_atom(input_metric.distance_type)
             IN  IF QI = <<>> THEN {Err("InvalidArgument", "")}
                 ELSE IF ~FloatTypesAgree(T, QI, QO) THEN {Err("FFI", "")}
                 ELSE monomorphize_float(T[1], input_domain, input_metric, scale, MO)
        ELSE LET QI == input_metric.distance_type
             IN  IF ~IntegerDispatchMatches(T, QI, QO)
                 THEN {Err("UnsupportedCombination", "")}
                 ELSE monomorphize_integer(T[1], QI[1], QO[1],
                                           input_domain, input_metric, scale, MO)

\* What the call leaves of the domain handle it was given: the handle is
\* borrowed (try_as_ref!) and the builder works on a clone
\* (downcast_ref::<D>()?.clone()).
DomainConsumedByCall(obj) == NoDomain
DomainAfterCall(obj) == obj

\* The same for the metric handle (downcast_ref::<D::InputMetric>()?.clone()).
MetricAfterCall(obj) == obj

----------------------------------------------------------------------------
(* Caller of the Gaussian constructor *)

NullStr == [null |-> TRUE, text |-> <<>>]
CStr(toks) == [null |-> FALSE, text |-> toks]
MeasureAtoms == {"f32", "f64", "i32", "bool"}
MOStrings ==
    {NullStr}
    \cup {CStr(<<f, "<", a, ">">>) : f \in MeasureFamilies, a \in MeasureAtoms}
    \cup {CStr(<<"ZeroConcentratedDivergence", "<", "f64">>), CStr(<<"f64">>)}

MetricKinds == {"AbsoluteDistance", "L2Distance", "SymmetricDistance"}

\* the input of the constructor's unit test
TestArg == 99
NoInvoke == [arg |-> 0, out |-> 0, done |-> FALSE]

\* noise of the mechanism: none at scale 0, otherwise some integer, here
\* within one scale of zero
Noise(scale) == (0 - scale)..scale

----------------------------------------------------------------------------
(* opendp-ffi/src/data.rs *)

\* A stored value is a sequence of numbers: a scalar is <<n>>, a pair
\* <<a, b>>, a String the sequence of its character codes, an empty container
\* <<>>.
FreeSlot == [type_ |-> "", value |-> <<>>, from |-> "", arg |-> <<>>]

\* FfiObject::new(value): the descriptor is the type of the value wrapped.
\* from/arg remember the constructor and its argument.
FfiObjectNew(type_, value, from, arg) ==
    [type_ |-> type_, value |-> value, from |-> from, arg |-> arg]

opendp_data__from_f64(p) == FfiObjectNew("f64", <<p>>, "from_f64", <<p>>)

opendp_data__distance_hamming(d) ==
    FfiObjectNew("u32", <<d>>, "distance_hamming", <<d>>)

opendp_data__distance_smoothed_max_divergence(epsilon, delta) ==
    FfiObjectNew("(f64, f64)", <<epsilon, delta>>,
                 "distance_smoothed_max_divergence", <<epsilon, delta>>)

\* util::to_str(p).to_owned(): the characters of the C string, copied
opendp_data__from_string(p) ==
    FfiObjectNew("String", [i \in 1..Len(p) |-> p[i]], "from_string", p)

\* FfiObject::as_ref::<T>(): the value, when T is the stored descriptor
as_ref(this, T) ==
    IF this.type_ = T
    THEN [ok |-> TRUE, err |-> "", value |-> this.value]
    ELSE [ok |-> FALSE, err |-> "TypeMismatch", value |-> <<>>]

\* the T of this.as_ref() in opendp_data__to_f64, fixed by the return type
ToF64BorrowStored(this) == this.type_
ToF64BorrowType(this) == "f64"

\* outcome of opendp_data__to_f64(this)
opendp_data__to_f64(this) ==
    LET r == as_ref(this, ToF64BorrowType(this))
    IN  [ok |-> r.ok, err |-> r.err,
         num |-> IF r.ok THEN r.value[1] ELSE 0, str |-> ""]

\* the dispatch list of opendp_data__to_string
ToStringPrimitives ==
    {"u32", "u64", "i32", "i64", "f32", "f64", "bool", "String", "u8", "Column"}
ToStringTypesNoNested ==
    ToStringPrimitives
    \cup {"Vec<u32>", "Vec<u64>", "Vec<i32>", "Vec<i64>", "Vec<f32>", "Vec<f64>",
          "Vec<bool>", "Vec<String>", "Vec<u8>", "Vec<Column>"}
    \cup {"HashMap<String, Column>"}
    \cup {"(Box<i32>, Box<f64>)", "(Box<i32>, Box<u32>)",
          "(Box<(Box<f64>, Box<f64>)>, Box<f64>)"}
ToStringTypes ==
    ToStringPrimitives
    \cup {"Vec<u32>", "Vec<u64>", "Vec<i32>", "Vec<i64>", "Vec<f32>", "Vec<f64>",
          "Vec<bool>", "Vec<String>", "Vec<u8>", "Vec<Column>", "Vec<Vec<String>>"}
    \cup {"HashMap<String, Column>"}
    \cup {"(Box<i32>, Box<f64>)", "(Box<i32>, Box<u32>)",
          "(Box<(Box<f64>, Box<f64>)>, Box<f64>)"}

Chr(c) == CASE c = 97 -> "a" [] c = 98 -> "b" [] OTHER -> "?"
RECURSIVE Chars(_)
Chars(v) == IF v = <<>> THEN "" ELSE Chr(Head(v)) \o Chars(Tail(v))
FmtInt(n) == ToString(n)
FmtFloat(n) == ToString(n) \o ".0"

\* format!("{:?}", this) for the values wrapped here
DebugFmt(T, v) ==
    CASE T \in {"u32", "u64", "i32", "i64", "u8"} -> FmtInt(v[1])
      [] T \in {"f32", "f64"} -> FmtFloat(v[1])
      [] T = "bool" -> IF v[1] = 1 THEN "true" ELSE "false"
      [] T = "String" -> "\"" \o Chars(v) \o "\""
      [] T = "Column" -> "Column"
      [] T = "HashMap<String, Column>" -> "{}"
      [] T = "(Box<i32>, Box<f64>)" ->
            "(" \o FmtInt(v[1]) \o ", " \o FmtFloat(v[2]) \o ")"
      [] T = "(Box<i32>, Box<u32>)" ->
            "(" \o FmtInt(v[1]) \o ", " \o FmtInt(v[2]) \o ")"
      [] T = "(Box<(Box<f64>, Box<f64>)>, Box<f64>)" ->
            "((" \o FmtFloat(v[1]) \o ", " \o FmtFloat(v[2]) \o "), "
                 \o FmtFloat(v[3]) \o ")"
      [] OTHER -> "[]"

\* monomorphize::<T>(this) of opendp_data__to_string
monomorphize(T, this) ==
    LET r == as_ref(this, T)
    IN  [ok |-> r.ok, err |-> r.err, num |-> 0,
         str |-> IF r.ok THEN DebugFmt(T, r.value) ELSE ""]

\* outcome of opendp_data__to_string(this): dispatch on the stored descriptor
opendp_data__to_string(this) ==
    IF this.type_ \in ToStringTypes
    THEN monomorphize(this.type_, this)
    ELSE [ok |-> FALSE, err |-> "UnsupportedType", num |-> 0, str |-> ""]

\* util::into_c_char_p(string): the buffers allocated after a to_string that
\* produced a string
StrBufsAfterToString(n, out) == IF out.ok THEN n + 1 ELSE n

\* the functions opendp_data__bootstrap announces to the caller
ExportedFunctions ==
    {[name |-> "from_string", args |-> <<"const char *">>, ret |-> "FfiObject *"],
     [name |-> "to_string", args |-> <<"const FfiObject *">>, ret |-> "const char *"],
     [name |-> "data_free", args |-> <<"FfiObject *">>, ret |-> ""]}

\* the exported functions that take ownership of a string and return nothing:
\* the release path for the buffers of util::into_c_char_p
StringReleasers ==
    {f \in ExportedFunctions : f.args = <<"char *">> /\ f.ret = ""}

\* the buffers allocated after the caller has released one string
StrBufsAfterRelease(n) == IF StringReleasers # {} THEN n - 1 ELSE n

\* util::into_owned(this): the box is dropped
HeapAfterFreeKept(h, this) == h
HeapAfterFree(h, this) == [h EXCEPT ![this] = FreeSlot]

NoRet == [op |-> "", this |-> 0, ok |-> TRUE, err |-> "", num |-> 0, str |-> ""]
Outcome(op, this, out) ==
    [op |-> op, this |-> this, ok |-> out.ok, err |-> out.err,
     num |-> out.num, str |-> out.str]
Done(op, this) == [NoRet EXCEPT !.op = op, !.this = this]

Addrs == 1..MaxHandles
Values == 1..MaxValue
CStrings == {<<97>>, <<97, 98>>}

\* types wrapped by other parts of the library (FfiObject::new at the end of
\* every constructor and invocation), each with one value of the type
ForeignTypes ==
    {"u64", "i32", "i64", "f32", "bool", "u8", "u16", "Column",
     "Vec<u32>", "Vec<u64>", "Vec<i32>", "Vec<i64>", "Vec<f32>", "Vec<f64>",
     "Vec<bool>", "Vec<String>", "Vec<u8>", "Vec<Column>", "Vec<Vec<String>>",
     "HashMap<String, Column>", "(Box<i32>, Box<f64>)", "(Box<i32>, Box<u32>)",
     "(Box<(Box<f64>, Box<f64>)>, Box<f64>)"}
SampleValue(T) ==
    CASE T \in {"u64", "i32", "i64", "u8", "f32", "bool", "u16"} -> <<1>>
      [] T \in {"(Box<i32>, Box<f64>)", "(Box<i32>, Box<u32>)"} -> <<1, 1>>
      [] T = "(Box<(Box<f64>, Box<f64>)>, Box<f64>)" -> <<1, 1, 1>>
      [] OTHER -> <<>>

\* a wrap operation returns the address of a new box to the caller
Wrap(obj, op) ==
    \E a \in Addrs :
        /\ heap[a] = FreeSlot
        /\ heap' = [heap EXCEPT ![a] = obj]
        /\ owned' = owned \cup {a}
        /\ ret' = Done(op, a)
        /\ UNCHANGED <<strBufs, callerStrs>>
        /\ UNCHANGED gaussVars

FromF64(p) == Wrap(opendp_data__from_f64(p), "from_f64")
DistanceHamming(d) == Wrap(opendp_data__distance_hamming(d), "distance_hamming")
DistanceSmoothedMaxDivergence(epsilon, delta) ==
    Wrap(opendp_data__distance_smoothed_max_divergence(epsilon, delta),
         "distance_smoothed_max_divergence")
FromString(p) == Wrap(opendp_data__from_string(p), "from_string")
WrapForeign(T) == Wrap(FfiObjectNew(T, SampleValue(T), "new", <<>>), "new")

ToF64(this) ==
    /\ this \in owned
    /\ ret' = Outcome("to_f64", this, opendp_data__to_f64(heap[this]))
    /\ UNCHANGED <<heap, owned, strBufs, callerStrs>>
    /\ UNCHANGED gaussVars

ToString_(this) ==
    /\ this \in owned
    /\ strBufs < MaxStrings
    /\ LET out == opendp_data__to_string(heap[this])
       IN  /\ ret' = Outcome("to_string", this, out)
           /\ strBufs' = StrBufsAfterToString(strBufs, out)
           /\ callerStrs' = IF out.ok THEN callerStrs + 1 ELSE callerStrs
    /\ UNCHANGED <<heap, owned>>
    /\ UNCHANGED gaussVars

\* the caller is done with a string it was returned and releases it the way
\* the library offers
ReleaseString ==
    /\ callerStrs > 0
    /\ callerStrs' = callerStrs - 1
    /\ strBufs' = StrBufsAfterRelease(strBufs)
    /\ ret' = Done("release_string", 0)
    /\ UNCHANGED <<heap, owned>>
    /\ UNCHANGED gaussVars

DataFree(this) ==
    /\ this \in owned
    /\ heap' = HeapAfterFree(heap, this)
    /\ owned' = owned \ {this}
    /\ ret' = Done("data_free", this)
    /\ UNCHANGED <<strBufs, callerStrs>>
    /\ UNCHANGED gaussVars

NoCall == [input_domain |-> NoDomain, input_metric |-> NoMetric,
           scale |-> NullScale, MO |-> NullStr, made |-> FALSE]

InitGauss ==
    /\ anyDomain = NoDomain
    /\ anyMetric = NoMetric
    /\ call = NoCall
    /\ result = NoResult
    /\ invoked = NoInvoke

InitData ==
    /\ heap = [a \in Addrs |-> FreeSlot]
    /\ owned = {}
    /\ strBufs = 0
    /\ callerStrs = 0
    /\ ret = NoRet

\* util::into_raw(AnyDomain::new(..))
NewDomain(kind, T) ==
    /\ anyDomain = NoDomain
    /\ anyDomain' = AnyDomainNew(kind, T)
    /\ UNCHANGED <<anyMetric, call, result, invoked>>
    /\ UNCHANGED dataVars

\* util::into_raw(AnyMetric::new(..))
NewMetric(kind, Q) ==
    /\ anyMetric = NoMetric
    /\ anyMetric' = AnyMetricNew(kind, Q)
    /\ UNCHANGED <<anyDomain, call, result, invoked>>
    /\ UNCHANGED dataVars

\* one call of opendp_measurements__make_gaussian
MakeGaussian(dom, met, scale, MOstr) ==
    /\ ~call.made
    /\ call' = [input_domain |-> dom, input_metric |-> met,
                scale |-> scale, MO |-> MOstr, made |-> TRUE]
    /\ result' \in opendp_measurements__make_gaussian(dom, met, scale, MOstr)
    /\ anyDomain' = DomainAfterCall(anyDomain)
    /\ anyMetric' = MetricAfterCall(anyMetric)
    /\ invoked' = NoInvoke
    /\ UNCHANGED dataVars

\* opendp_core__measurement_invoke(&measurement, arg)
Invoke(arg) ==
    /\ result.ok
    /\ ~invoked.done
    /\ \E n \in Noise(result.val.scale) :
          invoked' = [arg |-> arg, out |-> arg + n, done |-> TRUE]
    /\ UNCHANGED <<anyDomain, anyMetric, call, result>>
    /\ UNCHANGED dataVars

\* the caller is done with the FfiResult (and the Measurement in it)
DropResult ==
    /\ call.made
    /\ call' = NoCall
    /\ result' = NoResult
    /\ invoked' = NoInvoke
    /\ UNCHANGED <<anyDomain, anyMetric>>
    /\ UNCHANGED dataVars

Next ==
    \/ \E k \in DomainKinds, T \in Atoms : NewDomain(k, T)
    \/ \E k \in MetricKinds, Q \in Atoms : NewMetric(k, Q)
    \/ \E dom \in {NoDomain, anyDomain}, met \in {NoMetric, anyMetric},
          scale \in ScalePayloads, MOstr \in MOStrings :
          MakeGaussian(dom, met, scale, MOstr)
    \/ Invoke(TestArg)
    \/ DropResult

Init == InitGauss /\ InitData
Spec == Init /\ [][Next]_vars

DataNext ==
    \/ \E p \in Values : FromF64(p)
    \/ \E d \in Values : DistanceHamming(d)
    \/ \E epsilon \in Values : DistanceSmoothedMaxDivergence(epsilon, 1)
    \/ \E p \in CStrings : FromString(p)
    \/ \E T \in ForeignTypes : WrapForeign(T)
    \/ \E this \in Addrs : ToF64(this)
    \/ \E this \in Addrs : ToString_(this)
    \/ ReleaseString
    \/ \E this \in Addrs : DataFree(this)

DataSpec == Init /\ [][DataNext]_vars

----------------------------------------------------------------------------
(* Properties of the Gaussian constructor *)

\* the types the last call was made with (<<>> when there is none)
CallT  == get_atom(call.input_domain.type_)
CallQI == get_atom(call.input_metric.distance_type)
CallMO == TypeTryFrom(call.MO)
CallQO == get_atom(CallMO)
HandlesGiven == call.input_domain # NoDomain /\ call.input_metric # NoMetric
CallTIsFloat == CallT # <<>> /\ CallT[1] \in Floats

\* C1: when the domain's atomic type T is a float, the call returns an error
\* and builds no Measurement unless QI = T and QO = T, whatever the scale; with
\* both handles given and a well-formed MO the error is the float branch's own.
C1_FloatStrictness ==
    (call.made /\ CallTIsFloat /\ ~(CallQI = CallT /\ CallQO = CallT))
        => /\ ~result.ok
           /\ result.val = NoMeasurement
           /\ (HandlesGiven /\ CallQO # <<>> => result.err = "FFI")

C1_Witness ==
    /\ call.made
    /\ call.input_domain.type_ = <<"AtomDomain", "f64">>
    /\ call.input_metric.type_ = <<"AbsoluteDistance", "f32">>
    /\ call.scale = [ty |-> "f64", val |-> 1]
    /\ CallMO = <<"ZeroConcentratedDivergence", "f64">>
    /\ result.err = "FFI"

\* C2: when T is not a float and the requested measure's parameter type QO is
\* not a float, the call fails with the unsupported-combination error, for
\* every T, every metric distance type and every scale.
C2_NonFloatOutputRejected ==
    (call.made /\ HandlesGiven /\ ~CallTIsFloat
       /\ CallQO # <<>> /\ CallQO[1] \notin Floats)
        => result = Err("UnsupportedCombination", "")

C2_Witness ==
    /\ call.made
    /\ call.input_domain.type_ = <<"AtomDomain", "i32">>
    /\ call.input_metric.type_ = <<"AbsoluteDistance", "i32">>
    /\ call.scale = [ty |-> "i32", val |-> 0]
    /\ CallMO = <<"ZeroConcentratedDivergence", "i32">>
    /\ result.err = "UnsupportedCombination"

\* C3: in the integer branch, for every integer T, numeric QI and float QO,
\* with the domain AtomDomain<T> or VectorDomain<AtomDomain<T>>, the metric
\* that domain's Gaussian input metric over QI, MO = ZeroConcentratedDivergence<QO>
\* and a scale payload holding a QO, the call yields a Measurement over these;
\* built with scale 0 it maps input 99 to exactly 99.
C3_IntegerBranchBuilds ==
    (/\ call.made /\ HandlesGiven
     /\ CallT[1] \in IntegerTypes
     /\ call.input_domain.type_ \in
            {<<"AtomDomain">> \o CallT, <<"VectorDomain", "AtomDomain">> \o CallT}
     /\ CallQI[1] \in Numbers
     /\ call.input_metric.type_ = InputMetric(call.input_domain.type_, CallQI[1])
     /\ CallQO # <<>> /\ CallQO[1] \in Floats
     /\ CallMO = <<"ZeroConcentratedDivergence">> \o CallQO
     /\ call.scale.ty = CallQO[1])
        => /\ result.ok
           /\ result.val = [input_domain |-> call.input_domain,
                            input_metric |-> call.input_metric,
                            output_measure |-> CallMO,
                            scale |-> call.scale.val]
           /\ (call.scale.val = 0 /\ invoked.done /\ invoked.arg = TestArg
                 => invoked.out = TestArg)

C3_Witness ==
    /\ call.input_domain.type_ = <<"AtomDomain", "i32">>
    /\ call.input_metric.type_ = <<"AbsoluteDistance", "i32">>
    /\ call.scale = [ty |-> "f64", val |-> 0]
    /\ CallMO = <<"ZeroConcentratedDivergence", "f64">>
    /\ result.ok
    /\ invoked.done /\ invoked.arg = TestArg /\ invoked.out = TestArg

\* C4: a Measurement is returned only if T is a float or an integer type, the
\* domain descriptor is exactly AtomDomain<T> or VectorDomain<AtomDomain<T>>
\* and the measure descriptor is exactly ZeroConcentratedDivergence<QO>; every
\* other call returns an error and builds nothing.
C4_DispatchClosed ==
    /\ result.ok =>
          /\ call.made /\ HandlesGiven
          /\ CallT[1] \in Floats \cup IntegerTypes
          /\ call.input_domain.type_ \in
                {<<"AtomDomain">> \o CallT, <<"VectorDomain", "AtomDomain">> \o CallT}
          /\ CallQO # <<>>
          /\ CallMO = <<"ZeroConcentratedDivergence">> \o CallQO
    /\ ~result.ok => result.val = NoMeasurement

C4_Witness ==
    /\ call.made
    /\ call.input_domain.type_ = <<"OptionDomain", "AtomDomain", "i32">>
    /\ call.input_metric.type_ = <<"AbsoluteDistance", "i32">>
    /\ call.scale = [ty |-> "f64", val |-> 0]
    /\ CallMO = <<"ZeroConcentratedDivergence", "f64">>
    /\ ~result.ok

\* C8 (as stated): the scale payload is read as a value of the domain's atomic
\* type T in both branches.
C8_ScaleReadAsT ==
    result.scaleAs # "" => <<result.scaleAs>> = CallT

\* C8 (amended): the scale payload is read as a value of the measure's
\* parameter type QO -- which is T in the float branch only -- so a payload
\* holding a QO becomes the Measurement's scale.
C8_ScaleReadAsQO ==
    /\ result.scaleAs # "" => <<result.scaleAs>> = CallQO
    /\ (result.ok /\ CallTIsFloat) => CallQO = CallT
    /\ (result.ok /\ <<call.scale.ty>> = CallQO) => result.val.scale = call.scale.val

C8_Witness ==
    /\ result.ok
    /\ CallT = <<"i32">>
    /\ CallQO = <<"f64">>
    /\ call.scale = [ty |-> "f64", val |-> 1]
    /\ result.scaleAs = "f64"
    /\ result.val.scale = 1

\* C10: the call has no effect but the returned handle: an error carries no
\* Measurement, and after the call, successful or not, the domain and metric
\* handles it was given are still the caller's live, unchanged objects.
C10_NoSideEffects ==
    call.made =>
        /\ (~result.ok => result.val = NoMeasurement)
        /\ (call.input_domain # NoDomain => anyDomain = call.input_domain)
        /\ (call.input_metric # NoMetric => anyMetric = call.input_metric)

C10_Witness ==
    /\ call.made /\ HandlesGiven
    /\ anyDomain = call.input_domain /\ anyMetric = call.input_metric
    /\ result.err = "TypeMismatch"

----------------------------------------------------------------------------
(* Properties of the data container *)

\* the descriptor of the handle the last operation was applied to
ThisObj == heap[ret.this]

\* the supported set of describe: the primitives, the Vec types, the map and
\* the three tuple types
DeclaredPrimitives ==
    {"u32", "u64", "i32", "i64", "f32", "f64", "bool", "String", "u8", "Column"}
DeclaredSupported ==
    DeclaredPrimitives
    \cup {"Vec<u32>", "Vec<u64>", "Vec<i32>", "Vec<i64>", "Vec<f32>", "Vec<f64>",
          "Vec<bool>", "Vec<String>", "Vec<u8>", "Vec<Column>", "Vec<Vec<String>>",
          "HashMap<String, Column>", "(Box<i32>, Box<f64>)", "(Box<i32>, Box<u32>)",
          "(Box<(Box<f64>, Box<f64>)>, Box<f64>)"}

C7_NoStringLeak ==
    callerStrs = 0 => strBufs = 0

\* C9: every allocated FfiObject is held by the caller and by nobody else, so
\* with every handle freed once nothing stays allocated; a wrap hands out one
\* new handle, data_free takes exactly its handle away, and to_f64 and
\* to_string leave the handles and what they store as they were.
C9_Owned == owned = {a \in Addrs : heap[a] # FreeSlot}
C9_Step ==
    /\ ret'.op \in {"to_f64", "to_string"} => heap' = heap /\ owned' = owned
    /\ ret'.op = "data_free" =>
          /\ ret'.this \in owned
          /\ owned' = owned \ {ret'.this}
          /\ heap' = [heap EXCEPT ![ret'.this] = FreeSlot]
    /\ ret'.op \in {"from_f64", "from_string", "distance_hamming",
                    "distance_smoothed_max_divergence"} =>
          /\ ret'.this \notin owned
          /\ owned' = owned \cup {ret'.this}
          /\ \A a \in Addrs \ {ret'.this} : heap'[a] = heap[a]
====
